---- MODULE Spec2Model ----
(***************************************************************************)
(* ReduceNode of polars-stream (crates/polars-stream/src/nodes/reduce.rs): *)
(* the phase machine Sink -> Source -> Done driven by update_state, the    *)
(* parallel partial reduction spawned in the Sink phase and the single     *)
(* emission of the Source phase.  The GroupedReduction capability, the     *)
(* selectors and the channels are external to the file and are modelled    *)
(* at their interface.                                                     *)
(***************************************************************************)
EXTENDS Integers, Sequences, FiniteSets, TLC

\* ------------------------------------------------------------------ bounds
\* Largest number of parallel sub-receivers recv.parallel() may yield.
MaxParts == 2
\* Number of input morsels upstream can produce over the whole run.
MaxMorsels == 2
\* Morsel payloads are drawn from 1..MaxVal.
MaxVal == 2

Values == 1..MaxVal
PortState == {"Ready", "Blocked", "Done"}

\* ------------------------------------------------- construction parameters
\* The reduction kinds handed to ReduceNode::new, one per output column.
Kinds == <<"sum", "last">>
\* The output schema handed to ReduceNode::new: (name, declared type) pairs.
output_schema == <<[name |-> "a_sum", dtype |-> "i64"], [name |-> "a_last", dtype |-> "i32"]>>

Min(a, b) == IF a < b THEN a ELSE b

\* --------------------------------------- GroupedReduction (external trait)
\* The state of one group: set = some value was fed in, seq = the order key
\* of the value kept, val = the accumulated value.
EmptyGroup == [set |-> FALSE, seq |-> 0, val |-> 0]

\* new_empty(): an instance of the same kind with no groups.
NewEmpty(r) == [kind |-> r.kind, groups |-> <<>>]

\* resize(n): exactly n groups, the existing ones kept, new ones empty.
Resize(r, n) ==
    [r EXCEPT !.groups = [i \in 1..n |-> IF i <= Len(r.groups) THEN r.groups[i] ELSE EmptyGroup]]

\* One group fed one value with its order key.
UpdateOne(kind, g, input, seq) ==
    IF kind = "sum"
    THEN [set |-> TRUE, seq |-> 0, val |-> g.val + input]
    ELSE IF (~g.set) \/ seq >= g.seq
         THEN [set |-> TRUE, seq |-> seq, val |-> input]
         ELSE g

\* update_group(values, group_idx, seq_id); group ids are 0-based in the code.
UpdateGroup(r, input, gid, seq) ==
    [r EXCEPT !.groups[gid + 1] = UpdateOne(r.kind, r.groups[gid + 1], input, seq)]

\* Group b merged into group a.
CombineOne(kind, a, b) ==
    IF kind = "sum"
    THEN [set |-> a.set \/ b.set, seq |-> 0, val |-> a.val + b.val]
    ELSE IF b.set /\ ((~a.set) \/ b.seq >= a.seq) THEN b ELSE a

\* combine_subset(other, subset, group_idxs) with one-element index lists.
CombineSubset(r1, r2, otherGid, selfGid) ==
    [r1 EXCEPT !.groups[selfGid + 1] =
        CombineOne(r1.kind, r1.groups[selfGid + 1], r2.groups[otherGid + 1])]

\* finalize(): one value per group; sum of nothing is 0, last of nothing is null.
Finalize(r) ==
    [i \in 1..Len(r.groups) |->
        IF r.kind = "sum"
        THEN [null |-> FALSE, v |-> r.groups[i].val]
        ELSE [null |-> ~r.groups[i].set, v |-> r.groups[i].val]]

\* selector.evaluate(morsel.df(), ..): the input column of the morsel.
Evaluate(k, morsel) == morsel.val

\* ------------------------------------------------------------ update_state
\* What the external calls of one finalization do: all succeed, or the
\* finalize of reducer `at` returns Err, or the cast of column `at` to the
\* declared type is invalid.
OkOutcome == [kind |-> "ok", at |-> 0]
Outcomes ==
    {OkOutcome} \cup
    {[kind |-> x, at |-> k] : x \in {"finalize", "cast"}, k \in 1..Min(Len(Kinds), Len(output_schema))}

\* `_ if send[0] == PortState::Done`
ShortCircuit(s) == s = "Done"


\* Faulty variants of InputDone: the phase is not matched; the receive port
\* state is not looked at.
InputDoneAnyPhase(st, r) == r = "Done"
InputDoneAnyRecv(st, r) == st = "Sink"


\* Faulty variant of InputDone: the arm never matches.
InputDoneNever(st, r) == FALSE

\* `ReduceState::Sink { .. } if matches!(recv[0], PortState::Done)`
InputDone(st, r) == st = "Sink" /\ r = "Done"


\* Faulty variants of BatchTaken: the arm never matches; the arm matches
\* whether or not the batch was taken.
BatchTakenNever(st, d) == FALSE
BatchTakenAlways(st, d) == st = "Source"


\* Faulty variant of BatchTaken: the test of the Option is inverted.
BatchTakenInverted(st, d) == st = "Source" /\ d # <<>>

\* `ReduceState::Source(df) if df.is_none()`
BatchTaken(st, d) == st = "Source" /\ d = <<>>


\* Faulty variant of FinalizeReady: the resize is left out.
FinalizeNoResize(r) == r

\* `r.resize(1)` ahead of `r.finalize()`
FinalizeReady(r) == Resize(r, 1)


\* Faulty variant of ScalarColumn: the column keeps the reducer's own name.
ScalarColumnNoRename(r, field) ==
    LET s == Finalize(r)
    IN  [name |-> r.kind, dtype |-> field.dtype, len |-> 1, null |-> s[1].null, v |-> s[1].v]

\* with_name(field.name).cast(&field.dtype), then unit_scalar_from_series:
\* a single-row constant column holding the finalized value.
ScalarColumn(r, field) ==
    LET s == Finalize(r)
    IN  [name |-> field.name, dtype |-> field.dtype, len |-> 1, null |-> s[1].null, v |-> s[1].v]

\* What the map closure of update_state does for reducer k: finalize returns
\* Err, or an unwrap()/assert panics (invalid cast, a finalized series that
\* is not one row long), or the column is built.
ColumnResult(r, k, o) ==
    IF o.at = k /\ o.kind = "finalize" THEN "err"
    ELSE IF o.at = k /\ o.kind = "cast" THEN "panic"
    ELSE IF Len(Finalize(FinalizeReady(r))) # 1 THEN "panic"
    ELSE "ok"

\* Number of (reducer, field) pairs of `reductions.iter_mut().zip(iter_fields())`.
ZipLen(reds) == Min(Len(reds), Len(output_schema))

MinOf(S) == CHOOSE j \in S : \A i \in S : j <= i

\* The pairs at which the closure does not build a column.
Stops(reds, o) == {k \in 1..ZipLen(reds) : ColumnResult(reds[k], k, o) # "ok"}

\* try_collect_vec over the pairs, stopping at the first pair of `stops`.
\* nfin[k] = 1 iff finalize was called on reducer k.
CollectColumns(reds, o, stops) ==
    [result |-> IF stops = {} THEN "ok" ELSE ColumnResult(reds[MinOf(stops)], MinOf(stops), o),
     reductions |-> [k \in 1..Len(reds) |->
                        IF k <= ZipLen(reds) /\ (stops = {} \/ k <= MinOf(stops))
                        THEN FinalizeReady(reds[k]) ELSE reds[k]],
     nfin |-> [k \in 1..Len(Kinds) |->
                        IF k <= ZipLen(reds) /\ (stops = {} \/ k <= MinOf(stops)) THEN 1 ELSE 0],
     columns |-> IF stops = {}
                 THEN [k \in 1..ZipLen(reds) |-> ScalarColumn(FinalizeReady(reds[k]), output_schema[k])]
                 ELSE <<>>]

\* The finalization of the Sink -> Source arm: every reducer resized to one
\* group, finalized, renamed, cast and wrapped as a single-row column.
FinalizeAll(reds, o) == CollectColumns(reds, o, Stops(reds, o))

NoFinalize == [k \in 1..Len(Kinds) |-> 0]

DoneNode == [state |-> "Done", df |-> <<>>, reductions |-> <<>>, result |-> "ok", nfin |-> NoFinalize]


\* Faulty variant of ToSource: the columns built so far become the batch
\* before the Err of the finalization is returned.
ToSourceIgnoreErr(st, d, f) ==
    [state |-> "Source", df |-> <<f.columns>>, reductions |-> <<>>,
     result |-> f.result, nfin |-> f.nfin]


\* Faulty variant of ToSource: the node moves to Source without the batch.
ToSourceNoBatch(st, d, f) ==
    IF f.result = "ok"
    THEN [state |-> "Source", df |-> <<>>, reductions |-> <<>>,
          result |-> "ok", nfin |-> f.nfin]
    ELSE [state |-> st, df |-> d, reductions |-> f.reductions,
          result |-> f.result, nfin |-> f.nfin]

\* The Sink -> Source arm given the finalization f: `?` returns the Err before
\* self.state is assigned.
ToSource(st, d, f) ==
    IF f.result = "ok"
    THEN [state |-> "Source", df |-> <<f.columns>>, reductions |-> <<>>,
          result |-> "ok", nfin |-> f.nfin]
    ELSE [state |-> st, df |-> d, reductions |-> f.reductions,
          result |-> f.result, nfin |-> f.nfin]


\* Faulty variant of Transition: the input-done arm is tried before the
\* short-circuit arm.
TransitionSinkFirst(st, d, reds, r, s, o) ==
    IF InputDone(st, r) THEN ToSource(st, d, FinalizeAll(reds, o))
    ELSE IF ShortCircuit(s) THEN DoneNode
    ELSE IF BatchTaken(st, d) THEN DoneNode
    ELSE [state |-> st, df |-> d, reductions |-> reds, result |-> "ok", nfin |-> NoFinalize]


\* Faulty variant of Transition: the arm that makes no transition empties
\* the reducers and drops the batch.
TransitionResets(st, d, reds, r, s, o) ==
    IF ShortCircuit(s) THEN DoneNode
    ELSE IF InputDone(st, r) THEN ToSource(st, d, FinalizeAll(reds, o))
    ELSE IF BatchTaken(st, d) THEN DoneNode
    ELSE [state |-> st, df |-> <<>>, reductions |-> [k \in 1..Len(reds) |-> NewEmpty(reds[k])],
          result |-> "ok", nfin |-> NoFinalize]

\* "State transitions.": the first match of update_state.
Transition(st, d, reds, r, s, o) ==
    IF ShortCircuit(s) THEN DoneNode
    ELSE IF InputDone(st, r) THEN ToSource(st, d, FinalizeAll(reds, o))
    ELSE IF BatchTaken(st, d) THEN DoneNode
    ELSE [state |-> st, df |-> d, reductions |-> reds, result |-> "ok", nfin |-> NoFinalize]


\* Faulty variants of Communicate: Source leaves the receive port Ready; Sink
\* reports the send port Ready.
CommunicateRecvOpen(st) ==
    IF st = "Sink" THEN [recv |-> "Ready", send |-> "Blocked"]
    ELSE IF st = "Source" THEN [recv |-> "Ready", send |-> "Ready"]
    ELSE [recv |-> "Done", send |-> "Done"]
CommunicateSinkSends(st) ==
    IF st = "Sink" THEN [recv |-> "Ready", send |-> "Ready"]
    ELSE IF st = "Source" THEN [recv |-> "Done", send |-> "Ready"]
    ELSE [recv |-> "Done", send |-> "Done"]


\* Faulty variants of Communicate: Done leaves the receive port Ready; Sink
\* reports the two ports the wrong way round.
CommunicateDoneRecvReady(st) ==
    IF st = "Sink" THEN [recv |-> "Ready", send |-> "Blocked"]
    ELSE IF st = "Source" THEN [recv |-> "Done", send |-> "Ready"]
    ELSE [recv |-> "Ready", send |-> "Done"]
CommunicateSwapped(st) ==
    IF st = "Sink" THEN [recv |-> "Blocked", send |-> "Ready"]
    ELSE IF st = "Source" THEN [recv |-> "Done", send |-> "Ready"]
    ELSE [recv |-> "Done", send |-> "Done"]


\* Faulty variant of Communicate: Done reports the send port Blocked.
CommunicateDoneSendBlocked(st) ==
    IF st = "Sink" THEN [recv |-> "Ready", send |-> "Blocked"]
    ELSE IF st = "Source" THEN [recv |-> "Done", send |-> "Ready"]
    ELSE [recv |-> "Done", send |-> "Blocked"]

\* "Communicate our state.": the second match of update_state.
Communicate(st) ==
    IF st = "Sink" THEN [recv |-> "Ready", send |-> "Blocked"]
    ELSE IF st = "Source" THEN [recv |-> "Done", send |-> "Ready"]
    ELSE [recv |-> "Done", send |-> "Done"]


\* Faulty variant of Report: the port states are written back before the
\* result of the transition is looked at.
ReportAlways(t, p, r, s) ==
    [state |-> t.state, df |-> t.df, reductions |-> t.reductions,
     result |-> t.result, nfin |-> t.nfin,
     recv |-> p.recv,
     send |-> p.send]

\* The node after the transition t with the port states left in the caller's
\* slices: untouched when the call does not return Ok.
Report(t, p, r, s) ==
    [state |-> t.state, df |-> t.df, reductions |-> t.reductions,
     result |-> t.result, nfin |-> t.nfin,
     recv |-> IF t.result = "ok" THEN p.recv ELSE r,
     send |-> IF t.result = "ok" THEN p.send ELSE s]

ReportOf(t, r, s) == Report(t, Communicate(t.state), r, s)

\* update_state(recv, send, _state).
update_state(st, d, reds, r, s, o) == ReportOf(Transition(st, d, reds, r, s, o), r, s)

\* ------------------------------------------------------------------- state
VARIABLES
    state,        \* ReduceState tag: "Sink", "Source" or "Done"
    df,           \* the Option<DataFrame> of Source: <<>> is None, <<b>> is Some(b)
    reductions,   \* the node-level reducers of Sink
    recv,         \* recv[0], the caller's receive port state slot
    send,         \* send[0], the caller's send port state slot
    pc,           \* scheduler: "idle", "sink", "source", "failed", "panicked"
    updated,      \* update_state has been called since the last spawn
    nparts,       \* the number of sub-receivers recv.parallel() yields
    chan,         \* per partition, the morsels in its sub-channel
    closed,       \* the receive channel has been closed for this step
    local,        \* per partition, the task's local_reducers
    task,         \* per partition task: "none", "run", "ok", "err"
    coord,        \* the partition the coordinating task awaits next
    coordSt,      \* coordinating task: "none", "run", "ok", "err"
    srcSt,        \* source task: "none", "run", "ok"
    received,     \* every morsel that entered the node, in sequence order
    sent,         \* every morsel delivered on the send port
    call,         \* the update_state call of this step, until spawn is called
    prev,         \* the call before it, when no spawn came between the two
    attempts,     \* number of send.send(morsel) calls made
    sourceSpawns, \* number of source tasks spawned
    produced,     \* number of result batches built (Sink -> Source)
    dropped,      \* number of held batches dropped by the short-circuit
    finalized,    \* per reducer, the number of finalize calls
    barrier,      \* some update_state call saw recv = Done while in Sink
    spawned,      \* the spawn call of this step: phase, ports handed, ports taken
    doneReported, \* per port, update_state has reported it Done
    coordErr,     \* the error the coordinating task returned, if any
    anyFailed,    \* some evaluate, update, combine, finalize or cast failed
    combined,     \* the partitions combined in this sink step, in call order
    firstDone,    \* the partition task of this step that returned first, or 0
    stepStart,    \* the node-level reducers when this sink step was spawned
    taken,        \* per partition, the morsels its task received in this step
    evalAt,       \* per partition task: 0 in recv.recv(), k at the evaluate of pair k
    pending,      \* the morsel the source task built and has not sent: <<>> or <<m>>
    chunks,       \* Series::try_from: the Vec<ArrayRef> handed in
    fname,        \* Series::try_from: the name, or the name of the arrow field
    fmd,          \* Series::try_from: the metadata of the arrow field
    tried,        \* which try_from was called: "none", "name" or "field"
    series        \* what try_from returned

nodeVars == <<state, df, reductions>>
portVars == <<recv, send>>
sinkVars == <<chan, closed, local, task, coord, coordSt, received>>
srcVars == <<srcSt, sent, attempts, pending>>
histVars == <<call, prev, produced, dropped, finalized, barrier>>
stepVars == <<combined, firstDone, stepStart, taken, evalAt>>
seriesVars == <<chunks, fname, fmd, tried, series>>
reduceVars == <<state, df, reductions, recv, send, pc, updated, nparts, chan, closed, local,
                task, coord, coordSt, srcSt, received, sent, call, prev, attempts,
                sourceSpawns, produced, dropped, finalized, barrier, spawned, doneReported,
                coordErr, anyFailed, combined, firstDone, stepStart, taken, evalAt, pending>>
vars == <<reduceVars, seriesVars>>

NoCall == [phase0 |-> "none", held0 |-> FALSE, fresh0 |-> FALSE, rIn |-> "none", sIn |-> "none", o |-> OkOutcome,
           out |-> [state |-> "none", df |-> <<>>, reductions |-> <<>>, result |-> "none",
                    nfin |-> NoFinalize, recv |-> "none", send |-> "none"]]

NoSpawn == [phase |-> "none", hr |-> FALSE, hs |-> FALSE, tookRecv |-> FALSE, tookSend |-> FALSE]

NoErr == [kind |-> "none", part |-> 0]

\* No Series::try_from call has returned; calls = the number of calls of
\* _try_from_arrow_unchecked(_with_md) made.
NoSeries == [result |-> "none", calls |-> 0, name |-> "", dtype |-> "none", nchunks |-> 0]

\* What the scheduler does with the result of update_state: Ok, Err, panic.
PcAfter(result) ==
    IF result = "ok" THEN "idle" ELSE IF result = "err" THEN "failed" ELSE "panicked"

Parts == 1..nparts

\* The partition tasks of a sink step exist while the step runs and, not
\* being awaited by the node, after the step has failed.
TasksMayRun == pc \in {"sink", "failed"}

\* ReduceNode::new: phase Sink holding the reducers as handed in (no group yet).
NodeInit ==
    /\ state = "Sink"
    /\ df = <<>>
    /\ reductions = [k \in 1..Len(Kinds) |-> [kind |-> Kinds[k], groups |-> <<>>]]
    /\ recv = "Blocked"
    /\ send = "Blocked"
    /\ pc = "idle"
    /\ updated = FALSE
    /\ nparts \in 1..MaxParts
    /\ chan = [p \in 1..nparts |-> <<>>]
    /\ closed = FALSE
    /\ local = [p \in 1..nparts |-> <<>>]
    /\ task = [p \in 1..nparts |-> "none"]
    /\ coord = 1
    /\ coordSt = "none"
    /\ srcSt = "none"
    /\ received = <<>>
    /\ sent = <<>>
    /\ call = NoCall
    /\ prev = NoCall
    /\ attempts = 0
    /\ sourceSpawns = 0
    /\ produced = 0
    /\ dropped = 0
    /\ finalized = NoFinalize
    /\ barrier = FALSE
    /\ spawned = NoSpawn
    /\ doneReported = [recv |-> FALSE, send |-> FALSE]
    /\ coordErr = NoErr
    /\ anyFailed = FALSE
    /\ combined = <<>>
    /\ firstDone = 0
    /\ stepStart = <<>>
    /\ taken = [p \in 1..nparts |-> <<>>]
    /\ evalAt = [p \in 1..nparts |-> 0]
    /\ pending = <<>>

\* The node alone: no Series::try_from call is part of its run.
Init ==
    /\ NodeInit
    /\ chunks = <<>>
    /\ fname = "a"
    /\ fmd = "none"
    /\ tried = "none"
    /\ series = NoSeries

\* The scheduler calls update_state with the neighbours' port states r, s; o
\* is the outcome of the external calls, which only the finalization makes.
UpdateState(r, s, o) ==
    /\ pc = "idle"
    /\ (o # OkOutcome => (~ShortCircuit(s)) /\ InputDone(state, r))
    /\ call' = [phase0 |-> state, held0 |-> df # <<>>,
                fresh0 |-> (\A k \in 1..Len(reductions) : reductions[k].groups = <<>>),
                rIn |-> r, sIn |-> s, o |-> o,
                out |-> update_state(state, df, reductions, r, s, o)]
    /\ state' = call'.out.state
    /\ df' = call'.out.df
    /\ reductions' = call'.out.reductions
    /\ recv' = call'.out.recv
    /\ send' = call'.out.send
    /\ pc' = PcAfter(call'.out.result)
    /\ produced' = produced + (IF state = "Sink" /\ state' = "Source" THEN 1 ELSE 0)
    /\ dropped' = dropped + (IF df # <<>> /\ df' = <<>> THEN 1 ELSE 0)
    /\ finalized' = [k \in 1..Len(Kinds) |-> finalized[k] + call'.out.nfin[k]]
    /\ prev' = IF updated THEN call ELSE NoCall
    /\ updated' = TRUE
    /\ barrier' = (barrier \/ (state = "Sink" /\ r = "Done"))
    /\ doneReported' = [recv |-> doneReported.recv \/ (call'.out.result = "ok" /\ recv' = "Done"),
                        send |-> doneReported.send \/ (call'.out.result = "ok" /\ send' = "Done")]
    /\ anyFailed' = (anyFailed \/ call'.out.result # "ok")
    /\ UNCHANGED <<nparts, sinkVars, srcVars, sourceSpawns, spawned, coordErr, stepVars>>
    /\ UNCHANGED seriesVars


\* Faulty variant of LocalReducers: the local reducers start from the node's
\* accumulated state instead of from new_empty().
LocalReducersNotEmpty(reds) == [k \in 1..Len(reds) |-> Resize(reds[k], 1)]

\* ------------------------------------------------------------- spawn_sink
\* Per sub-receiver: `d.new_empty()` then `r.resize(1)` for every reducer.
LocalReducers(reds) == [k \in 1..Len(reds) |-> Resize(NewEmpty(reds[k]), 1)]


\* Faulty variant of PairStep: the order key is not the morsel's sequence
\* number.
PairStepNoSeq(locs, k, morsel) ==
    [locs EXCEPT ![k] = UpdateGroup(locs[k], Evaluate(k, morsel), 0, 0)]


\* Faulty variant of PairStep: the reducer is updated twice with the input.
PairStepTwice(locs, k, morsel) ==
    [locs EXCEPT ![k] = UpdateGroup(UpdateGroup(locs[k], Evaluate(k, morsel), 0, morsel.seq),
                                    Evaluate(k, morsel), 0, morsel.seq)]

\* One turn of the inner loop: the input `selector.evaluate(..).await?` of
\* pair k returned is given to reducer k, group 0, with the morsel's sequence
\* number; no other reducer is touched.
PairStep(locs, k, morsel) ==
    [locs EXCEPT ![k] = UpdateGroup(locs[k], Evaluate(k, morsel), 0, morsel.seq)]

\* The body of the receive loop for one morsel: each (reducer, selector) pair
\* in turn; failAt = k > 0 means the evaluate or update_group of pair k
\* returns Err, pairs before k having been updated.
PartitionStep(locs, morsel, failAt) ==
    [k \in 1..Len(locs) |->
        IF failAt = 0 \/ k < failAt
        THEN UpdateGroup(locs[k], Evaluate(k, morsel), 0, morsel.seq)
        ELSE locs[k]]


\* Faulty variant of CombineStep: the node-level reducer is replaced by the
\* partition's instead of being combined with it.
CombineStepReplace(reds, locs, failAt) ==
    [k \in 1..Len(reds) |->
        IF k > Len(locs) THEN reds[k]
        ELSE IF failAt = 0 \/ k < failAt
        THEN CombineSubset(Resize(NewEmpty(reds[k]), 1), locs[k], 0, 0)
        ELSE IF k = failAt THEN Resize(reds[k], 1)
        ELSE reds[k]]

\* The coordinating task's inner loop for one partition's local_reducers:
\* `r1.resize(1)` then `r1.combine_subset(&*r2, &[0], &[0])?` per pair.
CombineStep(reds, locs, failAt) ==
    [k \in 1..Len(reds) |->
        IF k > Len(locs) THEN reds[k]
        ELSE IF failAt = 0 \/ k < failAt
        THEN CombineSubset(Resize(reds[k], 1), locs[k], 0, 0)
        ELSE IF k = failAt THEN Resize(reds[k], 1)
        ELSE reds[k]]


\* Faulty variant of Awaited: the result is used without awaiting the task.
AwaitedAnyway(t) == TRUE

\* `task.await` returns once the awaited task has returned Ok or Err.
Awaited(t) == t \in {"ok", "err"}


\* Faulty variant of NextAwaited: every other task is left out.
NextAwaitedSkip(i) == i + 2

\* The partition the coordinating task awaits after partition i.
NextAwaited(i) == i + 1

FailPoints == 0..Len(Kinds)

\* ------------------------------------------------------------------- spawn
\* The scheduler calls spawn after update_state, handing over a port only
\* when its state is Ready and calling only when it hands over some port.
Spawn(hr, hs) ==
    /\ pc = "idle"
    /\ updated
    /\ hr => recv = "Ready"
    /\ hs => send = "Ready"
    /\ hr \/ hs
    /\ updated' = FALSE
    /\ call' = NoCall
    /\ prev' = NoCall
    /\ IF state = "Sink" /\ (~hs) /\ hr
       THEN \* spawn_sink
            /\ pc' = "sink"
            /\ chan' = [p \in Parts |-> <<>>]
            /\ closed' = FALSE
            /\ local' = [p \in Parts |-> LocalReducers(reductions)]
            /\ task' = [p \in Parts |-> "run"]
            /\ coord' = 1
            /\ coordSt' = "run"
            /\ coordErr' = NoErr
            /\ spawned' = [phase |-> state, hr |-> hr, hs |-> hs,
                           tookRecv |-> TRUE, tookSend |-> FALSE]
            /\ combined' = <<>>
            /\ firstDone' = 0
            /\ stepStart' = reductions
            /\ taken' = [p \in Parts |-> <<>>]
            /\ evalAt' = [p \in Parts |-> 0]
            /\ UNCHANGED <<srcSt, sourceSpawns>>
       ELSE IF state = "Source" /\ (~hr) /\ hs
       THEN \* spawn_source
            /\ pc' = "source"
            /\ srcSt' = "run"
            /\ sourceSpawns' = sourceSpawns + 1
            /\ spawned' = [phase |-> state, hr |-> hr, hs |-> hs,
                           tookRecv |-> FALSE, tookSend |-> TRUE]
            /\ UNCHANGED <<chan, closed, local, task, coord, coordSt, coordErr, stepVars>>
       ELSE \* a failed assert!, unwrap() of None, or unreachable!()
            /\ pc' = "panicked"
            /\ spawned' = [phase |-> state, hr |-> hr, hs |-> hs,
                           tookRecv |-> FALSE, tookSend |-> FALSE]
            /\ UNCHANGED <<chan, closed, local, task, coord, coordSt, srcSt, sourceSpawns,
                           coordErr, stepVars>>
    /\ UNCHANGED <<nodeVars, portVars, nparts, received, sent, attempts, pending,
                   produced, dropped, finalized, barrier, doneReported, anyFailed>>
    /\ UNCHANGED seriesVars

\* Upstream puts the next morsel, with the next sequence number, into the
\* sub-channel of partition p.
Deliver(p, v) ==
    /\ pc = "sink"
    /\ ~closed
    /\ task[p] = "run"
    /\ Len(received) < MaxMorsels
    /\ LET morsel == [seq |-> Len(received), val |-> v]
       IN  /\ chan' = [chan EXCEPT ![p] = Append(@, morsel)]
           /\ received' = Append(received, morsel)
    /\ UNCHANGED <<nodeVars, portVars, pc, updated, nparts, closed, local, task, coord,
                   coordSt, srcVars, sourceSpawns, histVars,
                   spawned, doneReported, coordErr, anyFailed, stepVars>>
    /\ UNCHANGED seriesVars

\* The receive channel is closed: upstream is done, or done for this step.
CloseRecv ==
    /\ TasksMayRun
    /\ ~closed
    /\ closed' = TRUE
    /\ UNCHANGED <<nodeVars, portVars, pc, updated, nparts, chan, local, task, coord,
                   coordSt, received, srcVars, sourceSpawns, histVars,
                   spawned, doneReported, coordErr, anyFailed, stepVars>>
    /\ UNCHANGED seriesVars


\* Partition task p: `recv.recv().await` yields a morsel; the task holds it
\* and is at the evaluate of the first pair.
PartRecv(p) ==
    /\ TasksMayRun
    /\ task[p] = "run"
    /\ evalAt[p] = 0
    /\ chan[p] # <<>>
    /\ chan' = [chan EXCEPT ![p] = Tail(@)]
    /\ taken' = [taken EXCEPT ![p] = Append(@, Head(chan[p]))]
    /\ evalAt' = [evalAt EXCEPT ![p] = IF Len(local[p]) = 0 THEN 0 ELSE 1]
    /\ UNCHANGED <<nodeVars, portVars, pc, updated, nparts, closed, local, task, coord,
                   coordSt, received, srcVars, sourceSpawns, histVars,
                   spawned, doneReported, coordErr, anyFailed, combined, firstDone,
                   stepStart>>
    /\ UNCHANGED seriesVars


\* Faulty variant of PartEval: the task updates the node-level reducers
\* instead of its own.
PartEvalShared(p, ok) ==
    /\ TasksMayRun
    /\ task[p] = "run"
    /\ evalAt[p] >= 1
    /\ IF ok
       THEN /\ reductions' = PairStep(LocalReducersNotEmpty(reductions), evalAt[p],
                                      taken[p][Len(taken[p])])
            /\ evalAt' = [evalAt EXCEPT ![p] = IF @ < Len(local[p]) THEN @ + 1 ELSE 0]
            /\ UNCHANGED <<task, firstDone>>
       ELSE /\ task' = [task EXCEPT ![p] = "err"]
            /\ firstDone' = IF firstDone = 0 THEN p ELSE firstDone
            /\ UNCHANGED <<reductions, evalAt>>
    /\ anyFailed' = (anyFailed \/ ~ok)
    /\ UNCHANGED <<state, df, portVars, pc, updated, nparts, chan, closed, local, coord,
                   coordSt, received, srcVars, sourceSpawns, histVars,
                   spawned, doneReported, coordErr, combined, stepStart, taken>>
    /\ UNCHANGED seriesVars

\* Partition task p, holding a morsel: the `evaluate(..).await?` of the pair
\* it is at returns. Ok: `update_group` of that pair's reducer runs and the
\* task goes to the next pair, or back to `recv.recv()` after the last one.
\* Err (of the evaluate or of the update_group): the task returns it, the
\* reducers of the pairs before it having been updated.
PartEval(p, ok) ==
    /\ TasksMayRun
    /\ task[p] = "run"
    /\ evalAt[p] >= 1
    /\ IF ok
       THEN /\ local' = [local EXCEPT ![p] = PairStep(@, evalAt[p], taken[p][Len(taken[p])])]
            /\ evalAt' = [evalAt EXCEPT ![p] = IF @ < Len(local[p]) THEN @ + 1 ELSE 0]
            /\ UNCHANGED <<task, firstDone>>
       ELSE /\ task' = [task EXCEPT ![p] = "err"]
            /\ firstDone' = IF firstDone = 0 THEN p ELSE firstDone
            /\ UNCHANGED <<local, evalAt>>
    /\ anyFailed' = (anyFailed \/ ~ok)
    /\ UNCHANGED <<nodeVars, portVars, pc, updated, nparts, chan, closed, coord,
                   coordSt, received, srcVars, sourceSpawns, histVars,
                   spawned, doneReported, coordErr, combined, stepStart, taken>>
    /\ UNCHANGED seriesVars


\* Faulty variant of PartExit: the task returns only once the coordinating
\* task has gone past it.
PartExitAfterCoord(p) ==
    /\ TasksMayRun
    /\ task[p] = "run"
    /\ evalAt[p] = 0
    /\ chan[p] = <<>>
    /\ closed
    /\ coord > p
    /\ task' = [task EXCEPT ![p] = "ok"]
    /\ firstDone' = IF firstDone = 0 THEN p ELSE firstDone
    /\ UNCHANGED <<nodeVars, portVars, pc, updated, nparts, chan, closed, local, coord,
                   coordSt, received, srcVars, sourceSpawns, histVars,
                   spawned, doneReported, coordErr, anyFailed, combined, stepStart, taken,
                   evalAt>>
    /\ UNCHANGED seriesVars

\* Partition task p, in `recv.recv().await`: it is Err (closed and drained),
\* the task returns Ok(local_reducers).
PartExit(p) ==
    /\ TasksMayRun
    /\ task[p] = "run"
    /\ evalAt[p] = 0
    /\ chan[p] = <<>>
    /\ closed
    /\ task' = [task EXCEPT ![p] = "ok"]
    /\ firstDone' = IF firstDone = 0 THEN p ELSE firstDone
    /\ UNCHANGED <<nodeVars, portVars, pc, updated, nparts, chan, closed, local, coord,
                   coordSt, received, srcVars, sourceSpawns, histVars,
                   spawned, doneReported, coordErr, anyFailed, combined, stepStart, taken,
                   evalAt>>
    /\ UNCHANGED seriesVars


\* Faulty variant of Combine: a partition task that returned Err is skipped.
CombineSwallow(failAt) ==
    /\ pc = "sink"
    /\ coordSt = "run"
    /\ coord <= nparts
    /\ Awaited(task[coord])
    /\ IF task[coord] = "err"
       THEN /\ failAt = 0
            /\ coord' = NextAwaited(coord)
            /\ coordSt' = IF NextAwaited(coord) > nparts THEN "ok" ELSE "run"
            /\ UNCHANGED <<reductions, coordErr, combined>>
       ELSE /\ reductions' = CombineStep(reductions, local[coord], failAt)
            /\ combined' = Append(combined, coord)
            /\ coord' = IF failAt = 0 THEN NextAwaited(coord) ELSE coord
            /\ coordSt' = IF failAt # 0 THEN "err"
                          ELSE IF NextAwaited(coord) > nparts THEN "ok" ELSE "run"
            /\ coordErr' = IF failAt # 0 THEN [kind |-> "combine", part |-> coord] ELSE coordErr
    /\ anyFailed' = (anyFailed \/ failAt # 0)
    /\ UNCHANGED <<state, df, portVars, pc, updated, nparts, chan, closed, local, task,
                   received, srcVars, sourceSpawns, histVars, spawned, doneReported,
                   firstDone, stepStart, taken, evalAt>>
    /\ UNCHANGED seriesVars


\* Faulty variant of Combine: the coordinating task takes whichever partition
\* task has returned, in completion order.
CombineFirstFinished(failAt) ==
    /\ pc = "sink"
    /\ coordSt = "run"
    /\ coord <= nparts
    /\ \E p \in Parts \ {combined[i] : i \in DOMAIN combined} :
         /\ Awaited(task[p])
         /\ IF task[p] = "err"
            THEN /\ failAt = 0
                 /\ coordSt' = "err"
                 /\ coordErr' = [kind |-> "task", part |-> p]
                 /\ UNCHANGED <<reductions, coord, combined>>
            ELSE /\ reductions' = CombineStep(reductions, local[p], failAt)
                 /\ combined' = Append(combined, p)
                 /\ coord' = IF failAt = 0 THEN NextAwaited(coord) ELSE coord
                 /\ coordSt' = IF failAt # 0 THEN "err"
                               ELSE IF NextAwaited(coord) > nparts THEN "ok" ELSE "run"
                 /\ coordErr' = IF failAt # 0 THEN [kind |-> "combine", part |-> p] ELSE coordErr
    /\ anyFailed' = (anyFailed \/ failAt # 0)
    /\ UNCHANGED <<state, df, portVars, pc, updated, nparts, chan, closed, local, task,
                   received, srcVars, sourceSpawns, histVars, spawned, doneReported,
                   firstDone, stepStart, taken, evalAt>>
    /\ UNCHANGED seriesVars

\* The coordinating task: `task.await?` of the partition it waits for, then
\* the combine of that partition's reducers into the node-level ones.
Combine(failAt) ==
    /\ pc = "sink"
    /\ coordSt = "run"
    /\ coord <= nparts
    /\ Awaited(task[coord])
    /\ IF task[coord] = "err"
       THEN /\ failAt = 0
            /\ coordSt' = "err"
            /\ coordErr' = [kind |-> "task", part |-> coord]
            /\ UNCHANGED <<reductions, coord, combined>>
       ELSE /\ reductions' = CombineStep(reductions, local[coord], failAt)
            /\ combined' = Append(combined, coord)
            /\ coord' = IF failAt = 0 THEN NextAwaited(coord) ELSE coord
            /\ coordSt' = IF failAt # 0 THEN "err"
                          ELSE IF NextAwaited(coord) > nparts THEN "ok" ELSE "run"
            /\ coordErr' = IF failAt # 0 THEN [kind |-> "combine", part |-> coord] ELSE coordErr
    /\ anyFailed' = (anyFailed \/ failAt # 0)
    /\ UNCHANGED <<state, df, portVars, pc, updated, nparts, chan, closed, local, task,
                   received, srcVars, sourceSpawns, histVars, spawned, doneReported,
                   firstDone, stepStart, taken, evalAt>>
    /\ UNCHANGED seriesVars

\* The scheduler has awaited the join handle of the sink step.
JoinSink ==
    /\ pc = "sink"
    /\ coordSt \in {"ok", "err"}
    /\ IF coordSt = "ok"
       THEN /\ pc' = "idle"
            /\ local' = [p \in Parts |-> <<>>]
            /\ task' = [p \in Parts |-> "none"]
            /\ coord' = 1
            /\ coordSt' = "none"
            /\ closed' = FALSE
            /\ combined' = <<>>
            /\ firstDone' = 0
            /\ taken' = [p \in Parts |-> <<>>]
            /\ evalAt' = [p \in Parts |-> 0]
            /\ stepStart' = <<>>
       ELSE /\ pc' = "failed"
            /\ UNCHANGED <<local, task, coord, coordSt, closed, stepVars>>
    /\ spawned' = NoSpawn
    /\ UNCHANGED <<nodeVars, portVars, updated, nparts, chan, received, srcVars,
                   sourceSpawns, histVars, doneReported, coordErr, anyFailed>>
    /\ UNCHANGED seriesVars


\* Faulty variant of ResultMorsel: the morsel carries on the input's
\* sequence numbers.
ResultMorselInputSeq(batch) == [df |-> batch, seq |-> Len(received), token |-> "fresh"]

\* ------------------------------------------------------------ spawn_source
\* The morsel the source task builds from the batch it took.
ResultMorsel(batch) == [df |-> batch, seq |-> 0, token |-> "fresh"]


\* The source task starts: `df.take().unwrap()`, Morsel::new and the call of
\* `send.send(morsel)`; the batch has left the node, the morsel is with the
\* send that is awaited and nothing is delivered yet. A None batch panics.
SourceTake ==
    /\ pc = "source"
    /\ srcSt = "run"
    /\ pending = <<>>
    /\ IF df = <<>>
       THEN /\ pc' = "panicked"
            /\ UNCHANGED <<df, pending, attempts>>
       ELSE /\ df' = <<>>
            /\ pending' = <<ResultMorsel(df[1])>>
            /\ attempts' = attempts + 1
            /\ pc' = pc
    /\ UNCHANGED <<state, reductions, portVars, updated, nparts, sinkVars, srcSt, sent,
                   sourceSpawns, histVars, spawned, doneReported, coordErr,
                   anyFailed, stepVars>>
    /\ UNCHANGED seriesVars


\* Faulty variant of SourceSend: the result of the send is returned with `?`.
SourceSendErr(ok) ==
    /\ pc = "source"
    /\ srcSt = "run"
    /\ pending # <<>>
    /\ sent' = IF ok THEN Append(sent, pending[1]) ELSE sent
    /\ pending' = <<>>
    /\ srcSt' = "ok"
    /\ pc' = IF ok THEN pc ELSE "failed"
    /\ UNCHANGED <<nodeVars, portVars, attempts, updated, nparts, sinkVars, sourceSpawns,
                   histVars, spawned, doneReported, coordErr, anyFailed, stepVars>>
    /\ UNCHANGED seriesVars

\* The source task: the awaited `send.send(morsel)` returns (ok = the channel
\* accepted the morsel, otherwise the morsel is dropped with the Err), the
\* result is discarded and the task returns Ok(()).
SourceSend(ok) ==
    /\ pc = "source"
    /\ srcSt = "run"
    /\ pending # <<>>
    /\ sent' = IF ok THEN Append(sent, pending[1]) ELSE sent
    /\ pending' = <<>>
    /\ srcSt' = "ok"
    /\ UNCHANGED <<nodeVars, portVars, pc, attempts, updated, nparts, sinkVars, sourceSpawns,
                   histVars, spawned, doneReported, coordErr, anyFailed, stepVars>>
    /\ UNCHANGED seriesVars

\* The scheduler has awaited the join handle of the source step.
JoinSource ==
    /\ pc = "source"
    /\ srcSt = "ok"
    /\ pc' = "idle"
    /\ srcSt' = "none"
    /\ spawned' = NoSpawn
    /\ UNCHANGED <<nodeVars, portVars, updated, nparts, sinkVars, sent, attempts, pending,
                   sourceSpawns, histVars, doneReported, coordErr, anyFailed, stepVars>>
    /\ UNCHANGED seriesVars

Next ==
    \/ \E r \in PortState, s \in PortState, o \in Outcomes : UpdateState(r, s, o)
    \/ \E hr \in BOOLEAN, hs \in BOOLEAN : Spawn(hr, hs)
    \/ \E p \in Parts, v \in Values : Deliver(p, v)
    \/ CloseRecv
    \/ \E p \in Parts : PartRecv(p)
    \/ \E p \in Parts, ok \in BOOLEAN : PartEval(p, ok)
    \/ \E p \in Parts : PartExit(p)
    \/ \E f \in FailPoints : Combine(f)
    \/ JoinSink
    \/ SourceTake
    \/ \E ok \in BOOLEAN : SourceSend(ok)
    \/ JoinSource

Spec == Init /\ [][Next]_vars



\* ------------------------------------------------- Series::try_from (from.rs)
\* Largest number of chunks handed to try_from.
MaxChunks == 3

\* The arrow data types of the chunks: three that _try_from_arrow_unchecked
\* builds a series from and one that falls to its last arm.
ArrowTypes == {"Int32", "Int64", "Utf8", "Union"}
Names == {"a", "b"}
Metadata == {"none", "md"}

RECURSIVE ChunkLists(_)
\* Every list of at most n chunks, a chunk being known by its data type.
ChunkLists(n) ==
    IF n = 0 THEN {<<>>}
    ELSE ChunkLists(n - 1) \cup
         {Append(cs, [dtype |-> d]) : cs \in {c \in ChunkLists(n - 1) : Len(c) = n - 1},
                                      d \in ArrowTypes}

\* Faulty variant of check_types: only the first chunk is looked at.
check_types_first_only(cs) ==
    IF cs = <<>> THEN [result |-> "NoData", dtype |-> "none"]
    ELSE [result |-> "ok", dtype |-> cs[1].dtype]

\* check_types: the data type of the first chunk, NoData for an empty list,
\* ComputeError when a later chunk has another data type.
check_types(cs) ==
    IF cs = <<>> THEN [result |-> "NoData", dtype |-> "none"]
    ELSE IF \E i \in 2..Len(cs) : cs[i].dtype # cs[1].dtype
         THEN [result |-> "ComputeError", dtype |-> "none"]
         ELSE [result |-> "ok", dtype |-> cs[1].dtype]

\* The polars data type of the series built from chunks of arrow type dt.
PolarsType(dt) == IF dt = "Utf8" THEN "String" ELSE dt

\* _try_from_arrow_unchecked_with_md: the match on the data type; the last
\* arm bails with ComputeError.
try_from_arrow_unchecked_with_md(name, cs, dtype, md) ==
    IF dtype \in {"Int32", "Int64", "Utf8"}
    THEN [result |-> "ok", calls |-> 1, name |-> name, dtype |-> PolarsType(dtype),
          nchunks |-> Len(cs)]
    ELSE [result |-> "ComputeError", calls |-> 1, name |-> "", dtype |-> "none", nchunks |-> 0]

\* `let dtype = check_types(&chunks)?;` then the unchecked construction.
Checked(name, cs, md, c) ==
    IF c.result # "ok"
    THEN [NoSeries EXCEPT !.result = c.result]
    ELSE try_from_arrow_unchecked_with_md(name, cs, c.dtype, md)

\* TryFrom<(PlSmallStr, Vec<ArrayRef>)>: no metadata.
try_from_name(name, cs) == Checked(name, cs, "none", check_types(cs))

\* TryFrom<(&ArrowField, Vec<ArrayRef>)>: the field's name and metadata.
try_from_field(field, cs) == Checked(field.name, cs, field.metadata, check_types(cs))

\* Any name, field metadata and list of chunks, no call made yet.
SeriesInit ==
    /\ NodeInit
    /\ chunks \in ChunkLists(MaxChunks)
    /\ fname \in Names
    /\ fmd \in Metadata
    /\ tried = "none"
    /\ series = NoSeries

\* Series::try_from((name, chunks)).
TryFromName ==
    /\ tried = "none"
    /\ tried' = "name"
    /\ series' = try_from_name(fname, chunks)
    /\ UNCHANGED <<chunks, fname, fmd, reduceVars>>

\* Series::try_from((&field, chunks)).
TryFromField ==
    /\ tried = "none"
    /\ tried' = "field"
    /\ series' = try_from_field([name |-> fname, metadata |-> fmd], chunks)
    /\ UNCHANGED <<chunks, fname, fmd, reduceVars>>

SeriesNext == TryFromName \/ TryFromField

SeriesSpec == SeriesInit /\ [][SeriesNext]_vars

\* --------------------------------------------------------------- fairness
\* One step of partition task p.
PartTask(p) ==
    /\ p \in Parts
    /\ PartRecv(p) \/ (\E ok \in BOOLEAN : PartEval(p, ok)) \/ PartExit(p)

\* The executor runs every spawned task that can take a step: the partition
\* tasks and the coordinating task of a sink step.
FairTasks ==
    /\ Spec
    /\ \A p \in 1..MaxParts : WF_vars(PartTask(p))
    /\ WF_vars(\E f \in FailPoints : Combine(f))

\* The scheduler repeats update_state, spawn and join: the channel of a sink
\* step is closed, joins are taken, the source task runs, update_state is
\* called again, upstream reports Done and a Ready send port is served.
FairSched ==
    /\ FairTasks
    /\ WF_vars(CloseRecv)
    /\ WF_vars(JoinSink)
    /\ WF_vars(SourceTake)
    /\ WF_vars(\E ok \in BOOLEAN : SourceSend(ok))
    /\ WF_vars(JoinSource)
    /\ WF_vars(\E r \in PortState, s \in PortState, o \in Outcomes : UpdateState(r, s, o))
    /\ SF_vars(\E s \in PortState, o \in Outcomes : UpdateState("Done", s, o))
    /\ SF_vars(Spawn(FALSE, TRUE))

\* ------------------------------------------------------------- properties
\* The result batch, wherever it is: still held by the node, or delivered.
ResultBatch ==
    IF df # <<>> THEN df[1] ELSE IF sent # <<>> THEN sent[1].df ELSE <<>>

RECURSIVE SumUpTo(_, _)
\* The arithmetic sum of the payloads of the first n morsels of ms.
SumUpTo(ms, n) == IF n = 0 THEN 0 ELSE SumUpTo(ms, n - 1) + ms[n].val

RECURSIVE FoldUpTo(_, _, _)
\* One task's local reducers after the first n morsels of ms, in order.
FoldUpTo(locs, ms, n) ==
    IF n = 0 THEN locs ELSE PartitionStep(FoldUpTo(locs, ms, n - 1), ms[n], 0)

\* The batch a single partition yields that receives all of ms in order.
SinglePartition(ms) ==
    LET node == [k \in 1..Len(Kinds) |-> [kind |-> Kinds[k], groups |-> <<>>]]
    IN  FinalizeAll(CombineStep(node, FoldUpTo(LocalReducers(node), ms, Len(ms)), 0),
                    OkOutcome).columns

\* C1: the phase only moves Sink -> Source -> Done or from any phase to Done;
\* it never goes back to Sink or from Done to Source, and Done is final.
PhaseOneDirectional ==
    [][/\ (state = "Source" => state' \in {"Source", "Done"})
       /\ (state = "Done" => state' = "Done")]_vars

\* C1 witness: update_state was called in phase Done with both ports open and
\* the node is still Done.
DoneCalledAgain ==
    /\ call.phase0 = "Done"
    /\ call.rIn = "Ready"
    /\ call.sIn = "Ready"
    /\ state = "Done"

\* C2: after an update_state call that returned Ok the port states written
\* back are determined by the resulting phase alone.
PortsProjectPhase ==
    call.out.result = "ok" =>
        /\ (state = "Sink" => recv = "Ready" /\ send = "Blocked")
        /\ (state = "Source" => recv = "Done" /\ send = "Ready")
        /\ (state = "Done" => recv = "Done" /\ send = "Done")
        /\ state \in {"Sink", "Source", "Done"}

\* C2 witness: a call in Source that passed in two Blocked ports and got
\* Done and Ready written back.
PortsOverwritten ==
    /\ call.out.result = "ok"
    /\ call.phase0 = "Source"
    /\ call.rIn = "Blocked"
    /\ call.sIn = "Blocked"
    /\ recv = "Done"
    /\ send = "Ready"

\* C3: a source task is spawned, and a morsel is sent, only after some
\* update_state call saw recv = Done in phase Sink; nothing is sent while the
\* node is in Sink, and when a send is made no input morsel is still queued
\* and no sink task is still running.
FullBarrier ==
    /\ (sourceSpawns > 0 \/ attempts > 0 \/ sent # <<>>) => barrier
    /\ state = "Sink" => (sent = <<>> /\ attempts = 0 /\ srcSt = "none" /\ sourceSpawns = 0)
    /\ (attempts > 0 \/ srcSt # "none") =>
           \A p \in Parts : chan[p] = <<>> /\ task[p] = "none"

\* C3 witness: the result of a non-empty input has been delivered.
ResultSentAfterInput ==
    /\ sent # <<>>
    /\ Len(received) = MaxMorsels
    /\ barrier

\* C4 as stated: whenever recv passed in is not Done, send is reported Blocked.
SendBlockedUnlessRecvDone ==
    (call.out.result = "ok" /\ call.rIn # "Done") => send = "Blocked"

\* C4 amended: a call in phase Sink with recv not Done and send not Done
\* leaves the node in Sink and reports send = Blocked; with send = Done passed
\* in, the send port is reported Done instead.
SendBlockedInSink ==
    /\ (call.out.result = "ok" /\ call.phase0 = "Sink" /\ call.rIn # "Done" /\ call.sIn # "Done")
           => (state = "Sink" /\ send = "Blocked")
    /\ (call.out.result = "ok" /\ call.rIn # "Done" /\ call.sIn = "Done") => send = "Done"

\* C4 witness: a call in Sink with recv Blocked and send Ready reported Blocked.
SinkReportsBlocked ==
    /\ call.phase0 = "Sink"
    /\ call.rIn = "Blocked"
    /\ call.sIn = "Ready"
    /\ send = "Blocked"
    /\ received # <<>>

\* C5: a call with send = Done moves the node to Done from every phase and for
\* every recv, finalizes no reducer, builds no batch and reports recv = Done.
ShortCircuitToDone ==
    (call # NoCall /\ call.sIn = "Done") =>
        /\ call.out.result = "ok"
        /\ state = "Done"
        /\ df = <<>>
        /\ call.out.nfin = NoFinalize
        /\ recv = "Done"
        /\ send = "Done"

\* C5 witness: the short-circuit hit a Sink whose input was done and not empty.
ShortCircuitInsteadOfFinalize ==
    /\ call.phase0 = "Sink"
    /\ call.rIn = "Done"
    /\ call.sIn = "Done"
    /\ received # <<>>
    /\ state = "Done"
    /\ produced = 0

\* C6 as stated: a node that went through Source and is Done has emitted
\* exactly one morsel.
ExactlyOneEmitted ==
    (state = "Done" /\ produced > 0) => Len(sent) = 1

\* C6 amended: at most one source task is spawned and at most one send is
\* made; every batch built is still held, or was handed to exactly one send,
\* or was dropped by the short-circuit; a morsel is delivered only by a send;
\* a running source task finds the batch held or has its one send awaited;
\* and the update_state call after the batch was taken moves the node to Done.
SingleEmission ==
    /\ sourceSpawns <= 1
    /\ attempts <= 1
    /\ Len(sent) + Len(pending) <= attempts
    /\ produced = Len(df) + attempts + dropped
    /\ srcSt = "run" => Len(df) + Len(pending) = 1
    /\ srcSt # "run" => pending = <<>>
    /\ (call # NoCall /\ attempts = 1) => (state = "Done" /\ call.out.result = "ok")
    /\ (state = "Done" /\ produced > 0 /\ dropped = 0) => attempts = 1

\* C6 witness: the batch was taken and delivered and the node is Done.
EmittedThenDone ==
    /\ state = "Done"
    /\ attempts = 1
    /\ Len(sent) = 1
    /\ call.phase0 = "Source"

\* C7: the finalized sum equals the arithmetic sum of every morsel received
\* and the value a single partition yields from the same morsels in order.
SumIndependentOfPartitioning ==
    ResultBatch # <<>> =>
        /\ ResultBatch[1].v = SumUpTo(received, Len(received))
        /\ ResultBatch[1] = SinglePartition(received)[1]
        /\ ~ResultBatch[1].null

\* C7 witness: a result over MaxMorsels morsels, with more than one partition.
SumOverPartitions ==
    /\ ResultBatch # <<>>
    /\ Len(received) = MaxMorsels
    /\ nparts > 1

\* C8: the finalized last value is the payload of the morsel with the largest
\* sequence number among all morsels received.
LastIsMaxSeq ==
    (ResultBatch # <<>> /\ received # <<>>) =>
        \E i \in 1..Len(received) :
            /\ \A j \in 1..Len(received) : received[j].seq <= received[i].seq
            /\ ResultBatch[2].v = received[i].val
            /\ ~ResultBatch[2].null

\* C8 witness: the result kept a last value that differs from an earlier one.
LastOverridesEarlier ==
    /\ ResultBatch # <<>>
    /\ Len(received) >= 2
    /\ nparts > 1
    /\ received[1].val # received[Len(received)].val
    /\ ResultBatch[2].v = received[Len(received)].val

\* C9 as stated: with no morsel ever received, a call in Sink with recv = Done
\* whose external calls succeed finalizes every reducer once and moves to
\* Source holding the one-row batch, whatever the send port state passed in.
EmptyInputAlwaysFinalizes ==
    (/\ call.phase0 = "Sink"
     /\ call.rIn = "Done"
     /\ call.o = OkOutcome
     /\ received = <<>>) =>
        /\ call.out.result = "ok"
        /\ state = "Source"
        /\ call.out.nfin = [k \in 1..Len(Kinds) |-> 1]
        /\ df # <<>>

\* C9 amended: with no morsel ever received, a call in Sink with recv = Done
\* and send not Done whose external calls succeed finalizes every reducer once
\* and moves to Source holding the one-row batch of the empty-state values;
\* the same call with send = Done finalizes nothing, builds no batch and moves
\* to Done.
EmptyInputFinalizes ==
    /\ (/\ call.phase0 = "Sink"
        /\ call.rIn = "Done"
        /\ call.sIn # "Done"
        /\ call.o = OkOutcome
        /\ received = <<>>) =>
           /\ call.out.result = "ok"
           /\ state = "Source"
           /\ call.out.nfin = [k \in 1..Len(Kinds) |-> 1]
           /\ df = << <<[name |-> "a_sum", dtype |-> "i64", len |-> 1, null |-> FALSE, v |-> 0],
                        [name |-> "a_last", dtype |-> "i32", len |-> 1, null |-> TRUE, v |-> 0]>> >>
    /\ (/\ call.phase0 = "Sink"
        /\ call.rIn = "Done"
        /\ call.sIn = "Done"
        /\ received = <<>>) =>
           /\ call.out.result = "ok"
           /\ state = "Done"
           /\ call.out.nfin = NoFinalize
           /\ df = <<>>
           /\ produced = 0

\* C9 witness: the empty input was finalized on reducers no sink task touched.
EmptyNeverSpawned ==
    /\ call.phase0 = "Sink"
    /\ call.fresh0
    /\ received = <<>>
    /\ state = "Source"
    /\ df # <<>>

\* C10: a second update_state call with no spawn in between, made with the
\* port states the first call wrote back or with the first call's own inputs,
\* returns Ok, finalizes nothing and leaves phase, batch, reducers and
\* reported port states as the first call left them.
UpdateIdempotent ==
    (/\ prev # NoCall
     /\ prev.out.result = "ok"
     /\ \/ (call.rIn = prev.out.recv /\ call.sIn = prev.out.send)
        \/ (call.rIn = prev.rIn /\ call.sIn = prev.sIn)) =>
        /\ call.out = [prev.out EXCEPT !.nfin = NoFinalize]
        /\ state = prev.out.state
        /\ df = prev.out.df
        /\ recv = prev.out.recv
        /\ send = prev.out.send

\* C10 witness: the call that built the batch was repeated with its own
\* inputs and the batch is still held.
RepeatedAfterFinalize ==
    /\ prev.phase0 = "Sink"
    /\ prev.out.state = "Source"
    /\ call.rIn = prev.rIn
    /\ call.sIn = prev.sIn
    /\ call.sIn = "Blocked"
    /\ received # <<>>
    /\ state = "Source"
    /\ df # <<>>

\* C11: a port handed to spawn, and every port reported Ready in a step in
\* which spawn is called, is taken by spawn and served by a task; once a port
\* has been reported Done no task that uses it is spawned or running.
ReadyPortsServiced ==
    /\ spawned # NoSpawn =>
           /\ spawned.hr => (spawned.tookRecv /\ \A p \in Parts : task[p] # "none")
           /\ spawned.hs => (spawned.tookSend /\ srcSt # "none")
           /\ recv = "Ready" => spawned.tookRecv
           /\ send = "Ready" => spawned.tookSend
    /\ doneReported.recv => ((~spawned.tookRecv) /\ \A p \in Parts : task[p] # "run")
    /\ doneReported.send => ((~spawned.tookSend) /\ srcSt # "run")

\* C11 witness: the source task serves the send port after the receive port
\* was reported Done.
SendServedRecvDone ==
    /\ spawned.tookSend
    /\ spawned.hs
    /\ doneReported.recv
    /\ srcSt = "run"
    /\ received # <<>>

\* C12 as stated: when the coordinating task has returned, Ok or Err, every
\* partition task has terminated.
AllTerminatedAtJoin ==
    coordSt \in {"ok", "err"} => \A p \in Parts : task[p] \in {"ok", "err"}

\* C12 amended: when the coordinating task returns Ok every partition task
\* has returned Ok; when it returns Err the partitions up to the one it
\* awaited last have terminated; and when update_state can be called no task
\* of an earlier step exists and no morsel is left in a sub-channel.
JoinedBeforeNextStep ==
    /\ coordSt = "ok" => \A p \in Parts : task[p] = "ok" /\ chan[p] = <<>>
    /\ coordSt = "err" => \A p \in Parts : p <= coord => task[p] \in {"ok", "err"}
    /\ pc = "idle" =>
           /\ \A p \in Parts : task[p] = "none" /\ chan[p] = <<>>
           /\ coordSt = "none"
           /\ srcSt = "none"

\* C12 witness: the coordinating task returned Ok after two partition tasks
\* that both received a morsel.
TwoPartitionsJoined ==
    /\ coordSt = "ok"
    /\ nparts = 2
    /\ \A p \in Parts : task[p] = "ok" /\ local[p][1].groups[1].set

\* C13 as stated: once the coordinating task has combined a partition, no
\* partition task of the step is running.
MergeAfterAllTerminated ==
    (pc = "sink" /\ coord > 1) => \A p \in Parts : task[p] # "run"

\* C13 amended: every partition the coordinating task has combined, or was
\* combining when it failed, had returned Ok before; partitions it has not
\* reached may still be running.
MergeAfterOwnTask ==
    /\ \A p \in Parts : (pc \in {"sink", "failed"} /\ p < coord) => task[p] = "ok"
    /\ coordErr.kind = "combine" => task[coordErr.part] = "ok"

\* C13 witness: partition 1 has been combined while partition 2 still runs
\* and holds a value of its own.
MergedWhileOtherRuns ==
    /\ pc = "sink"
    /\ nparts = 2
    /\ coord = 2
    /\ task[2] = "run"
    /\ local[2][1].groups[1].set
    /\ reductions[1].groups[1].set

\* C14: in a sink step a partition's local reducers, its channel, its task
\* state and its place in the loop change only in steps of that running task,
\* whoever else is suspended meanwhile, which change nothing of
\* the node and of the other partitions; the node-level reducers and the
\* coordinating task's position change only in steps of the coordinating task,
\* taken when the partition it reads has terminated, which change no local
\* reducer.
ReducersNeverShared ==
    [][(pc = "sink" /\ pc' = "sink") =>
        /\ \A p \in Parts :
              (local'[p] # local[p] \/ task'[p] # task[p] \/ Len(chan'[p]) < Len(chan[p])
                   \/ evalAt'[p] # evalAt[p]) =>
                  /\ task[p] = "run"
                  /\ coord <= p
                  /\ reductions' = reductions
                  /\ coord' = coord
                  /\ coordSt' = coordSt
                  /\ \A q \in Parts \ {p} :
                         local'[q] = local[q] /\ task'[q] = task[q] /\ evalAt'[q] = evalAt[q]
        /\ (reductions' # reductions \/ coord' # coord \/ coordSt' # coordSt) =>
                  /\ coordSt = "run"
                  /\ task[coord] # "run"
                  /\ local' = local
                  /\ task' = task
                  /\ evalAt' = evalAt
                  /\ chan' = chan]_vars

\* C14 witness: the coordinating task has merged partition 1 into the node
\* and partition 2 has since updated its own reducers.
OwnersSideBySide ==
    /\ pc = "sink"
    /\ nparts = 2
    /\ coord = 2
    /\ task[2] = "run"
    /\ local[2][2].groups[1].set
    /\ reductions[2].groups[1].set
    /\ local[2][2].groups[1].seq > reductions[2].groups[1].seq

\* C15 as stated: when the coordinating task returns Err while some partition
\* task has failed, the error it returns is that of a partition task.
PartitionFailurePropagated ==
    (coordSt = "err" /\ \E p \in Parts : task[p] = "err") => coordErr.kind = "task"

\* C15 amended: a partition task that failed has stopped for good; while a failed
\* partition task exists the coordinating task has not returned Ok; when the
\* coordinating task returns Err, it is the error of the first failure in its
\* await order (every earlier partition returned Ok and was combined), and
\* it then does nothing more until the join reports the failure.
ErrorPropagation ==
    /\ [](/\ (\E p \in Parts : task[p] = "err") => coordSt # "ok"
          /\ coordSt = "err" =>
                 /\ coordErr.kind \in {"task", "combine"}
                 /\ coordErr.part = coord
                 /\ (coordErr.kind = "task") = (task[coord] = "err")
                 /\ \A p \in Parts : p < coord => task[p] = "ok"
          /\ coordSt # "err" => coordErr = NoErr)
    /\ [][/\ \A p \in Parts : task[p] = "err" =>
                 (task'[p] = "err" /\ local'[p] = local[p] /\ chan'[p] = chan[p])
          /\ coordSt = "err" =>
                 /\ coordSt' = "err"
                 /\ coordErr' = coordErr
                 /\ coord' = coord
                 /\ reductions' = reductions
                 /\ pc' \in {pc, "failed"}]_vars

\* C15 witness: the second partition failed after a morsel went through the
\* first, and the failure reached the scheduler.
SecondPartitionFailed ==
    /\ pc = "failed"
    /\ coordSt = "err"
    /\ coordErr = [kind |-> "task", part |-> 2]
    /\ task[1] = "ok"
    /\ local[1][1].groups[1].set

\* C16: once some evaluate, update, combine, finalize or cast has failed the
\* node is in Sink for good: it holds no batch, has built none and nothing
\* was or is sent.
NoPartialResult ==
    anyFailed =>
        /\ state = "Sink"
        /\ df = <<>>
        /\ produced = 0
        /\ sourceSpawns = 0
        /\ attempts = 0
        /\ sent = <<>>
        /\ pc \in {"sink", "failed", "panicked"}

\* C16 witness: the finalize of the second reducer failed after the first
\* reducer had been finalized over a non-empty input.
FinalizeFailedPartway ==
    /\ anyFailed
    /\ call.o = [kind |-> "finalize", at |-> 2]
    /\ call.out.nfin = <<1, 1>>
    /\ received # <<>>
    /\ pc = "failed"

\* C17 as stated: an invalid cast of a finalized column makes update_state
\* return an error value to the scheduler.
CastFailureReturnsErr ==
    call.o.kind = "cast" => (call.out.result = "err" /\ pc = "failed")

\* C18: whenever spawn is called under the scheduler protocol the phase is
\* Sink with the receive port present and the send port absent, or Source with
\* the send port present and the receive port absent; no assert, unwrap or
\* unreachable of spawn or of the task it spawned fails.
SpawnAssertionsHold ==
    spawned # NoSpawn =>
        /\ spawned.phase \in {"Sink", "Source"}
        /\ spawned.phase = state
        /\ spawned.phase = "Sink" => (spawned.hr /\ ~spawned.hs /\ spawned.tookRecv /\ ~spawned.tookSend)
        /\ spawned.phase = "Source" => (spawned.hs /\ ~spawned.hr /\ spawned.tookSend /\ ~spawned.tookRecv)
        /\ pc = (IF spawned.phase = "Sink" THEN "sink" ELSE "source")

\* C18 witness: spawn was called in Sink a second time, after a first sink
\* step that received a morsel.
SecondSinkSpawn ==
    /\ spawned.phase = "Sink"
    /\ spawned.hr
    /\ pc = "sink"
    /\ received # <<>>
    /\ \A p \in Parts : chan[p] = <<>> /\ ~local[p][1].groups[1].set
    /\ coord = 1

\* C19: a call in Sink with recv = Done and send not Done whose external
\* calls succeed finalizes every reducer once, and the node moves to Source
\* holding one batch with one single-row column per (reducer, field) pair, in
\* schema order, named and typed after the field; no reducer is ever
\* finalized twice.
FinalizeBuildsBatch ==
    /\ (/\ call.phase0 = "Sink"
        /\ call.rIn = "Done"
        /\ call.sIn # "Done"
        /\ call.o = OkOutcome) =>
           /\ call.out.result = "ok"
           /\ state = "Source"
           /\ Len(df) = 1
           /\ Len(df[1]) = Min(Len(Kinds), Len(output_schema))
           /\ \A k \in 1..Len(df[1]) :
                  /\ df[1][k].name = output_schema[k].name
                  /\ df[1][k].dtype = output_schema[k].dtype
                  /\ df[1][k].len = 1
           /\ call.out.nfin = [k \in 1..Len(Kinds) |-> 1]
    /\ \A k \in 1..Len(Kinds) : finalized[k] <= 1
    /\ state = "Source" => \A k \in 1..Len(Kinds) : finalized[k] = 1

\* C19 witness: the batch was built from reducers that hold input.
BatchBuiltFromInput ==
    /\ call.phase0 = "Sink"
    /\ call.rIn = "Done"
    /\ call.sIn = "Ready"
    /\ ~call.fresh0
    /\ Len(received) = MaxMorsels
    /\ state = "Source"
    /\ finalized = <<1, 1>>

\* C20: a call in Source with send not Done moves the node to Done exactly
\* when the batch had been taken; while the batch is held the node stays in
\* Source, keeps the batch and reports send = Ready.
SourceUntilTaken ==
    (call.phase0 = "Source" /\ call.sIn # "Done") =>
        /\ call.out.result = "ok"
        /\ (state = "Done") = (~call.held0)
        /\ call.held0 => (state = "Source" /\ df # <<>> /\ send = "Ready" /\ recv = "Done")

\* C20 witness: two calls in a row found the batch still held.
HeldAcrossCalls ==
    /\ prev.phase0 = "Source"
    /\ prev.held0
    /\ call.phase0 = "Source"
    /\ call.held0
    /\ call.sIn = "Blocked"
    /\ state = "Source"
    /\ send = "Ready"

RECURSIVE CombineInOrder(_, _, _)
\* The node-level reducers reds after the local reducers of partitions 1..n
\* have been combined into them in index order.
CombineInOrder(reds, locs, n) ==
    IF n = 0 THEN reds ELSE CombineStep(CombineInOrder(reds, locs, n - 1), locs[n], 0)

\* C21: the partitions combined in a sink step are 1, 2, ... in index order,
\* whichever partition task returned first; the node-level reducers are the
\* index-order combination of the local reducers combined so far, and of all
\* of them when the coordinating task returns Ok.
CombineInIndexOrder ==
    /\ combined = [i \in 1..Len(combined) |-> i]
    /\ coordSt \in {"run", "ok"} =>
           /\ Len(combined) = coord - 1
           /\ reductions = CombineInOrder(stepStart, local, Len(combined))
    /\ coordSt = "ok" => Len(combined) = nparts

\* C21 witness: partition 2 returned first, both partitions hold input, and
\* the combine calls were made for partition 1, then partition 2.
LastFinishedFirst ==
    /\ coordSt = "ok"
    /\ nparts = 2
    /\ firstDone = 2
    /\ combined = <<1, 2>>
    /\ taken[1] # <<>>
    /\ taken[2] # <<>>

\* The number of morsels partition task p has given to its reducer k: every
\* morsel it received, but for the one it holds when it has not yet come to
\* pair k (or failed at it).
Fed(p, k) == IF evalAt[p] = 0 \/ k < evalAt[p] THEN Len(taken[p]) ELSE Len(taken[p]) - 1

\* C22: every sub-receiver has its own task; the local reducers of a task are
\* one-group reducers of the node's kinds, and the task goes through the pairs
\* in order for the morsel it holds, so that each reducer was fed exactly the
\* morsels the task received (the held one once its pair is done, and not when
\* the task failed before it), each once, at group 0 and with the morsel's
\* sequence number as order key (sum: their sum; last: the value and sequence
\* number of the latest); the morsels are received in channel order, and the
\* task returns Ok only from a receive on a closed and drained channel.
PartitionLoopFaithful ==
    \A p \in Parts :
        /\ pc = "sink" => task[p] # "none"
        /\ task[p] # "none" =>
               /\ Len(local[p]) = Len(Kinds)
               /\ evalAt[p] \in 0..Len(Kinds)
               /\ evalAt[p] # 0 => (taken[p] # <<>> /\ task[p] # "ok")
               /\ task[p] = "err" => evalAt[p] # 0
               /\ \A k \in 1..Len(Kinds) :
                      /\ local[p][k].kind = Kinds[k]
                      /\ Len(local[p][k].groups) = 1
                      /\ local[p][k].groups[1].set = (Fed(p, k) > 0)
                      /\ Kinds[k] = "sum" =>
                             local[p][k].groups[1].val = SumUpTo(taken[p], Fed(p, k))
                      /\ (Kinds[k] = "last" /\ Fed(p, k) > 0) =>
                             /\ local[p][k].groups[1].val = taken[p][Fed(p, k)].val
                             /\ local[p][k].groups[1].seq = taken[p][Fed(p, k)].seq
               /\ LET all == taken[p] \o chan[p]
                  IN  /\ \A i \in 1..Len(all) : received[all[i].seq + 1] = all[i]
                      /\ \A i \in 1..Len(all), j \in 1..Len(all) :
                             i < j => all[i].seq < all[j].seq
        /\ task[p] = "ok" => (closed /\ chan[p] = <<>>)

\* C22 witness: of two partition tasks one received every morsel and the
\* other none, and both returned after the channel was closed.
OnePartitionTookAll ==
    /\ pc = "sink"
    /\ nparts = 2
    /\ task[1] = "ok"
    /\ task[2] = "ok"
    /\ Len(taken[2]) = MaxMorsels
    /\ taken[1] = <<>>
    /\ taken[2][1].val # taken[2][2].val

\* C23: the source task takes the held batch and makes one send of one morsel
\* that holds that batch with sequence number 0 and a fresh token, whatever
\* sequence numbers the input had; when the send returns, having delivered
\* that morsel or not, the task returns; nothing else is ever sent.
SourceSendsOnce ==
    /\ [](/\ Len(sent) <= 1
          /\ attempts <= 1
          /\ Len(sent) + Len(pending) <= attempts
          /\ \A i \in 1..Len(sent) : sent[i].seq = 0 /\ sent[i].token = "fresh"
          /\ pending # <<>> => (srcSt = "run" /\ df = <<>>)
          /\ srcSt = "ok" => (df = <<>> /\ attempts = 1 /\ pending = <<>>))
    /\ [][/\ attempts' # attempts =>
                 /\ srcSt = "run" /\ srcSt' = "run"
                 /\ df # <<>>
                 /\ df' = <<>>
                 /\ attempts' = attempts + 1
                 /\ pending = <<>>
                 /\ pending' = <<[df |-> df[1], seq |-> 0, token |-> "fresh"]>>
                 /\ sent' = sent
          /\ (srcSt = "run" /\ srcSt' # "run") =>
                 /\ pending # <<>>
                 /\ pending' = <<>>
                 /\ srcSt' = "ok"
                 /\ sent' \in {sent, Append(sent, pending[1])}
          /\ sent' # sent => (srcSt = "run" /\ srcSt' = "ok")
          /\ pending' # pending => (attempts' # attempts \/ srcSt' # srcSt)]_vars

\* C23 witness: the batch of an input whose last sequence number is not 0
\* went out as morsel 0 and the source task has returned.
ResultIsMorselZero ==
    /\ srcSt = "ok"
    /\ Len(sent) = 1
    /\ sent[1].seq = 0
    /\ Len(received) = MaxMorsels
    /\ received[Len(received)].seq > 0
    /\ df = <<>>

\* C24: after a send that returned without delivering, the channel being
\* closed, the batch is gone, the source task has returned Ok, nothing is
\* reported as failed, no second send or source task follows, and the
\* update_state call after the step moves the node to Done.
SilentSendFailure ==
    /\ attempts <= 1
    /\ sourceSpawns <= 1
    /\ (attempts = 1 /\ pending = <<>> /\ sent = <<>>) =>
           /\ df = <<>>
           /\ srcSt \in {"ok", "none"}
           /\ pc \in {"source", "idle"}
           /\ ~anyFailed
           /\ state \in {"Source", "Done"}
           /\ call # NoCall => (call.out.result = "ok" /\ state = "Done")

\* C24 witness: the send failed and the next call, with the send port still
\* Ready, found the batch taken and moved the node to Done.
DoneAfterFailedSend ==
    /\ attempts = 1
    /\ pending = <<>>
    /\ sent = <<>>
    /\ call.phase0 = "Source"
    /\ call.sIn = "Ready"
    /\ ~call.held0
    /\ state = "Done"

\* C25: a call whose finalize returns Err returns that Err, leaves the node
\* in Sink without a batch and leaves the caller's port states as passed in.
FinalizeErrLeavesSink ==
    call.o.kind = "finalize" =>
        /\ call.phase0 = "Sink"
        /\ call.out.result = "err"
        /\ pc = "failed"
        /\ state = "Sink"
        /\ df = <<>>
        /\ produced = 0
        /\ recv = call.rIn
        /\ send = call.sIn

\* C25 witness: the first finalize failed on a non-empty input and the send
\* port state is still the Ready that was passed in.
FinalizeErrPortsKept ==
    /\ call.o = [kind |-> "finalize", at |-> 1]
    /\ call.rIn = "Done"
    /\ call.sIn = "Ready"
    /\ recv = "Done"
    /\ send = "Ready"
    /\ state = "Sink"
    /\ received # <<>>

\* C26: once the channel of a sink step is closed every partition task that
\* is running eventually returns and the coordinating task eventually
\* returns; a partition task ends only by returning Ok from a receive on a
\* closed and drained channel or by returning the Err of the pair it is at,
\* and a running task that holds a morsel, or has a morsel or a closed
\* channel before it, can take its step.
SinkTasksTerminate ==
    /\ \A p \in 1..MaxParts :
           (p \in Parts /\ closed /\ task[p] = "run") ~> (p \in Parts /\ task[p] # "run")
    /\ (closed /\ coordSt = "run") ~> (coordSt \in {"ok", "err"})
    /\ [](\A p \in Parts :
             (TasksMayRun /\ task[p] = "run" /\ (evalAt[p] # 0 \/ chan[p] # <<>> \/ closed)) =>
                 ENABLED (PartRecv(p) \/ PartEval(p, TRUE) \/ PartExit(p)))
    /\ [][\A p \in Parts :
             (task[p] = "run" /\ task'[p] # "run") =>
                 \/ (task'[p] = "ok" /\ closed /\ chan[p] = <<>> /\ evalAt[p] = 0)
                 \/ (task'[p] = "err" /\ evalAt[p] # 0)]_vars

\* C26 witness: the coordinating task returned the Err of partition 1 and
\* partition 2, not awaited, drained its closed channel and returned Ok.
DrainedAfterFailure ==
    /\ pc = "failed"
    /\ coordErr = [kind |-> "task", part |-> 1]
    /\ nparts = 2
    /\ closed
    /\ task[2] = "ok"
    /\ taken[2] # <<>>

\* C27: under the fair scheduler the node eventually reaches Done unless an
\* operation fails.
ProgressToDone == <>(state = "Done" \/ anyFailed)

\* C27 witness: the node is Done after a two-partition reduction whose result
\* morsel was delivered.
DoneAfterDelivery ==
    /\ state = "Done"
    /\ nparts = 2
    /\ Len(received) = MaxMorsels
    /\ Len(sent) = 1
    /\ call.phase0 = "Source"
    /\ ~call.held0
    /\ ~anyFailed

\* C28: when a sink step has been merged, and whenever the node is idle in
\* Sink, the node-level reducers hold every morsel received so far exactly
\* once (sum: the sum of all payloads; last: the payload and sequence number
\* of the latest morsel); reducers without a group mean nothing was received;
\* and the batch built later holds the sum of the whole input.
NoInputLost ==
    /\ ((pc = "sink" /\ coordSt = "ok") \/ (pc = "idle" /\ state = "Sink")) =>
           \A k \in 1..Len(Kinds) :
               IF reductions[k].groups = <<>>
               THEN received = <<>>
               ELSE /\ Len(reductions[k].groups) = 1
                    /\ reductions[k].groups[1].set = (received # <<>>)
                    /\ Kinds[k] = "sum" =>
                           reductions[k].groups[1].val = SumUpTo(received, Len(received))
                    /\ (Kinds[k] = "last" /\ received # <<>>) =>
                           /\ reductions[k].groups[1].val = received[Len(received)].val
                           /\ reductions[k].groups[1].seq = received[Len(received)].seq
    /\ ResultBatch # <<>> =>
           \A k \in 1..Len(ResultBatch) :
               Kinds[k] = "sum" => ResultBatch[k].v = SumUpTo(received, Len(received))

\* C28 witness: a second sink step, started on reducers that already held
\* input, has merged further morsels.
SecondStepMerged ==
    /\ pc = "sink"
    /\ coordSt = "ok"
    /\ stepStart[1].groups # <<>>
    /\ stepStart[1].groups[1].set
    /\ \E p \in Parts : taken[p] # <<>>
    /\ Len(received) = MaxMorsels

\* C29: an update_state call moves no morsel; when it returns Ok without
\* changing the phase it changes neither the reducers nor the batch; called
\* in Sink with recv and send not Done it stays in Sink with the reducers
\* unchanged and none finalized, and called in Source with the batch held and
\* send not Done it stays in Source with the batch unchanged.
UpdateStateFrame ==
    [][(pc = "idle" /\ updated') =>
        /\ received' = received
        /\ sent' = sent
        /\ attempts' = attempts
        /\ chan' = chan
        /\ local' = local
        /\ task' = task
        /\ (call'.out.result = "ok" /\ state' = state) => (reductions' = reductions /\ df' = df)
        /\ (state = "Sink" /\ call'.rIn # "Done" /\ call'.sIn # "Done") =>
               /\ state' = "Sink"
               /\ reductions' = reductions
               /\ df' = df
               /\ call'.out.nfin = NoFinalize
        /\ (state = "Source" /\ df # <<>> /\ call'.sIn # "Done") =>
               /\ state' = "Source"
               /\ df' = df]_vars

\* C29 witness: a call in Sink with recv Ready and send Blocked on reducers
\* that hold input, which are still there.
SinkCallKeepsReducers ==
    /\ call.phase0 = "Sink"
    /\ call.rIn = "Ready"
    /\ call.sIn = "Blocked"
    /\ call.out.result = "ok"
    /\ state = "Sink"
    /\ Len(received) = MaxMorsels
    /\ reductions[1].groups # <<>>
    /\ reductions[1].groups[1].val = SumUpTo(received, Len(received))

\* C30: after an update_state call that returned Ok the node is never in
\* Source with the batch taken; a source task that has not yet taken the
\* batch finds it; and nothing but an invalid cast ever panics.
SourceHoldsBatch ==
    /\ (call # NoCall /\ call.out.result = "ok") => ~(state = "Source" /\ df = <<>>)
    /\ (spawned.phase = "Source" /\ srcSt = "run") =>
           (state = "Source" /\ (pending = <<>> => df # <<>>))
    /\ pc = "panicked" => call.o.kind = "cast"

\* C30 witness: spawn was called in Source and the source task is about to
\* take the batch of a non-empty input.
SourceTaskFindsBatch ==
    /\ pc = "source"
    /\ spawned.phase = "Source"
    /\ srcSt = "run"
    /\ df # <<>>
    /\ received # <<>>
    /\ attempts = 0
    /\ pending = <<>>

\* The place of a send port state in the order Blocked, Ready, Done.
SendRank(s) == IF s = "Blocked" THEN 0 ELSE IF s = "Ready" THEN 1 ELSE 2

\* C31: over the update_state calls that return Ok, a receive port reported
\* Done is reported Done by every later call, and the send port states
\* reported never step back in the order Blocked, Ready, Done; the receive
\* port is never reported Blocked and no other step writes a port state.
PortsMonotone ==
    [][/\ (pc = "idle" /\ updated' /\ call'.out.result = "ok") =>
            /\ doneReported.recv => recv' = "Done"
            /\ doneReported.send => send' = "Done"
            /\ SendRank(send') >= SendRank(send)
            /\ recv' \in {"Ready", "Done"}
            /\ recv = "Done" => recv' = "Done"
       /\ (~(pc = "idle" /\ updated')) => (recv' = recv /\ send' = send)]_vars

\* C31 witness: the node had reported recv = Done and send = Ready; called
\* again with recv = Ready and send = Blocked passed in, after the batch was
\* taken, it reported Done for both.
DoneStaysDone ==
    /\ call.phase0 = "Source"
    /\ ~call.held0
    /\ call.rIn = "Ready"
    /\ call.sIn = "Blocked"
    /\ call.out.result = "ok"
    /\ recv = "Done"
    /\ send = "Done"
    /\ Len(sent) = 1

\* C32: try_from, by name or by field, returns a series only for a non-empty
\* list whose chunks all have the data type of the first; an empty list gives
\* NoData and a list of differing types ComputeError, in both cases without
\* the construction having been called.
SeriesChecked ==
    tried # "none" =>
        /\ series.result = "ok" =>
               /\ chunks # <<>>
               /\ \A i \in 1..Len(chunks) : chunks[i].dtype = chunks[1].dtype
               /\ series.calls = 1
               /\ series.name = fname
               /\ series.nchunks = Len(chunks)
        /\ chunks = <<>> => (series.result = "NoData" /\ series.calls = 0)
        /\ (\E i \in 1..Len(chunks), j \in 1..Len(chunks) : chunks[i].dtype # chunks[j].dtype) =>
               (series.result = "ComputeError" /\ series.calls = 0)

\* C32 witness: called with a field and three chunks of which only the last
\* differs from the first, try_from returned ComputeError.
LastChunkDiffers ==
    /\ tried = "field"
    /\ Len(chunks) = 3
    /\ chunks[2].dtype = chunks[1].dtype
    /\ chunks[3].dtype # chunks[1].dtype
    /\ chunks[1].dtype # "Union"
    /\ series.result = "ComputeError"
    /\ series.calls = 0

====
